---------------------------- MODULE Spec2Model ----------------------------
(***************************************************************************)
(* Batch raster pipeline of file_convert/fastPNG.py: one invocation of the *)
(* script, in check-only mode (batch_check_pdfs) or in convert mode        *)
(* (batch_convert), with its pool of worker processes.                     *)
(*                                                                         *)
(* Names are sequences of tokens (<<"COIN_NPS_50k_replay_", "0001">> is    *)
(* the directory COIN_NPS_50k_replay_0001), so that startswith and         *)
(* endswith are computed on the name.  A path is <<directory, name>>.      *)
(* Free disk space is counted in units of 2^29 bytes.                      *)
(* Pool.map cuts the work items into chunks of ceil(n / (4 * workers))     *)
(* items; with the layouts below this is one item per chunk, so a task of  *)
(* the pool is one work item.                                              *)
(* Failures of the environment (a page that cannot be saved, a log file    *)
(* that cannot be opened) are drawn per work item, inside the worker; the  *)
(* coordinator's own file operations succeed.                              *)
(***************************************************************************)
EXTENDS Integers, Sequences, FiniteSets, TLC

VARIABLES
    mode,          \* "check" (--check-only) or "convert"
    parent,        \* listing of parent_dir: entries [name, isdir, files]
    pdf,           \* content of every *.pdf file: [kind, pages]
    filelist,      \* lines of the filename_list file
    fs,            \* paths of the image files that exist
    now,           \* the wall clock, in seconds
    pc,            \* position of the coordinating process
    exit_status,   \* exit status of the process (-1 while running)
    free,          \* free space read by check_disk_space (-1: not read)
    log_filename,  \* batch_check_pdfs' log_filename
    pdf_files,     \* the discovered documents, in dispatch order
    filenames,     \* result of read_filenames
    reported,      \* number of PDFs printed in the summary line (-1: none)
    queue,         \* work items not yet taken by a worker
    results,       \* check pipeline: results in completion order
    next_result,   \* check pipeline: position of the loop over results
    worker,        \* per worker process: [pc, doc, images, i, err]
    outcome,       \* per document: what the convert worker reported
    dispatched,    \* per document: times a worker took it from the queue
    completed,     \* per document: times the worker function ran to its end
    rasterized,    \* per document: calls of convert_from_path at full dpi
    probed,        \* per document: calls of convert_from_path at dpi 10
    written,       \* per document: the image paths it saved, in order
    logs,          \* error-log files: name -> sequence of records
    run,           \* number of the invocation on this directory tree (1, 2)
    prev_outcome,  \* per document: its outcome in the invocation before
    web            \* logbook/webscraper.py: the state of the script

vars == <<mode, parent, pdf, filelist, fs, now, pc, exit_status, free,
          log_filename, pdf_files, filenames, reported, queue, results,
          next_result,
          worker, outcome, dispatched, completed, rasterized, probed,
          written, logs, run, prev_outcome, web>>

-----------------------------------------------------------------------------
(* Bounds of the model *)

MaxPages == 3

MaxList == 2

NumWorkers == 2

MaxClock == 1

(* Program constants *)

MinFreeGB == 10

GiB == 2

Prefix == "COIN_NPS_50k_replay_"

PdfSuffix == ".pdf"

MainProcess == 0

Workers == 1..NumWorkers

NoDoc == <<>>

NoLogFile == ""

-----------------------------------------------------------------------------
(* Names and paths *)

startswith(name, prefix) == Len(name) >= 1 /\ name[1] = prefix

endswith(name, suffix) == Len(name) >= 1 /\ name[Len(name)] = suffix

join(dir, name) == <<dir, name>>

dirname(path) == path[1]

Range(s) == {s[i] : i \in DOMAIN s}

Perms(S) == {s \in [1..Cardinality(S) -> S] :
                \A i, j \in 1..Cardinality(S) : i # j => s[i] # s[j]}

(* Order of the tokens as Python compares the strings *)
TokenOrder == <<".bak", ".pdf", ".txt", "0001", "0002", "COIN_NPS_50k_replay_",
                "a", "b", "notes", "old_">>

Rank(t) == CHOOSE i \in 1..Len(TokenOrder) : TokenOrder[i] = t

RECURSIVE NameLess(_, _)
NameLess(a, b) ==
    IF a = <<>> THEN b # <<>>
    ELSE IF b = <<>> THEN FALSE
    ELSE IF a[1] = b[1] THEN NameLess(Tail(a), Tail(b))
    ELSE Rank(a[1]) < Rank(b[1])

sorted(S) == CHOOSE s \in Perms(S) :
                \A i, j \in 1..Cardinality(S) : i < j => NameLess(s[i], s[j])

PageName(i) == "p" \o ToString(i) \o ".png"

DefaultName(n) == "default_page_" \o ToString(n) \o ".png"

LogName(t) == "error_log_" \o ToString(t) \o ".txt"

-----------------------------------------------------------------------------
(* Inputs: directory layouts, document contents, filename lists *)

RunDir(n, files) == [name |-> <<Prefix, n>>, isdir |-> TRUE, files |-> files]

OldDir == [name |-> <<"old_", Prefix, "0001">>, isdir |-> TRUE,
           files |-> {<<"a", PdfSuffix>>}]

NotesFile == [name |-> <<Prefix, "notes", ".txt">>, isdir |-> FALSE, files |-> {}]

Layouts ==
    { {OldDir, NotesFile},
      {RunDir("0001", {<<"a", PdfSuffix>>, <<"notes", ".txt">>}), NotesFile},
      {RunDir("0001", {<<"a", PdfSuffix>>, <<"b", PdfSuffix>>})},
      {RunDir("0002", {<<"a", PdfSuffix>>, <<"a", PdfSuffix, ".bak">>}),
       RunDir("0001", {<<"b", PdfSuffix>>}), OldDir} }

BadContents == {[kind |-> "corrupt", pages |-> 0], [kind |-> "unreadable", pages |-> 0]}

Contents == BadContents \cup {[kind |-> "ok", pages |-> n] : n \in 1..MaxPages}

Dirs(p) == {e.name : e \in {x \in p : x.isdir}}

Files(p, d) == (CHOOSE e \in p : e.name = d).files

PdfPaths(p) == UNION {{join(d, f) : f \in {g \in Files(p, d) : endswith(g, PdfSuffix)}} :
                        d \in Dirs(p)}

Listings(p) == {l \in [Dirs(p) -> UNION {Perms(e.files) : e \in p}] :
                   \A d \in Dirs(p) : l[d] \in Perms(Files(p, d))}

(* l names, one per line, and a blank line at the end *)
FileLists == {[i \in 1..(l + 1) |-> IF i <= l THEN PageName(i) ELSE ""] : l \in 0..MaxList}

PreExisting(p, k) == {join(d, PageName(i)) : d \in Dirs(p), i \in 1..k}

FreeChoices == {MinFreeGB * GiB - 1, MinFreeGB * GiB}

-----------------------------------------------------------------------------
(* The functions of fastPNG.py *)

NoError == [kind |-> "none", path |-> NoDoc]

(* the scraper is a script of its own: under Spec it does not run *)
WebOff == [pc |-> "off"]

Idle == [pc |-> "idle", doc |-> NoDoc, images |-> 0, i |-> 0, err |-> NoError]

read_filenames(lines) == SelectSeq(lines, LAMBDA line : line # "")

check_pdf_swallow(pdf_path, content) ==
    IF content.kind = "corrupt" THEN [kind |-> "corrupt", path |-> pdf_path] ELSE NoError

check_pdf(pdf_path, content) ==
    IF content.kind = "ok" THEN NoError
    ELSE IF content.kind = "corrupt" THEN [kind |-> "corrupt", path |-> pdf_path]
    ELSE [kind |-> "unexpected", path |-> pdf_path]

check_disk_space_bytes(free_units, required_gb) == ~(free_units < required_gb)

check_disk_space(free_units, required_gb) == ~(free_units < required_gb * GiB)

all_pngs_exist_nonempty(files, pdf_dir, names) ==
    names # <<>> /\ \A i \in 1..Len(names) : join(pdf_dir, names[i]) \in files

all_pngs_exist(files, pdf_dir, names) ==
    \A i \in 1..Len(names) : join(pdf_dir, names[i]) \in files

output_filename_zero(names, i) == IF i < Len(names) THEN names[i + 1] ELSE DefaultName(i)

(* i counts from 0, as enumerate does *)
output_filename(names, i) == IF i < Len(names) THEN names[i + 1] ELSE DefaultName(i + 1)

log_file_name(log_file, t) == IF log_file = NoLogFile THEN LogName(t) ELSE log_file

log_error(lg, message, log_file, t, by) ==
    LET name == log_file_name(log_file, t)
        rec  == [stamp |-> t, msg |-> message, by |-> by]
    IN  IF name \in DOMAIN lg THEN [lg EXCEPT ![name] = Append(@, rec)]
        ELSE lg @@ (name :> <<rec>>)

open_w_lazy(lg, name) == lg

(* open(name, "w"): the file is created, or emptied when it exists *)
open_w(lg, name) == [n \in DOMAIN lg \cup {name} |-> IF n = name THEN <<>> ELSE lg[n]]

run_dirs_all(p) == sorted({e.name : e \in {x \in p : x.isdir}})

run_dirs(p) == sorted({e.name : e \in {x \in p : x.isdir /\ startswith(x.name, Prefix)}})

RECURSIVE find_pdf_files(_, _)
find_pdf_files(dirs, listing) ==
    IF dirs = <<>> THEN <<>>
    ELSE LET d    == Head(dirs)
             pdfs == SelectSeq(listing[d], LAMBDA f : endswith(f, PdfSuffix))
         IN  [i \in 1..Len(pdfs) |-> join(d, pdfs[i])] \o find_pdf_files(Tail(dirs), listing)

-----------------------------------------------------------------------------
Init ==
    /\ mode \in {"check", "convert"}
    /\ parent \in Layouts
    /\ pdf \in [PdfPaths(parent) -> Contents]
    /\ \A p \in PdfPaths(parent) :
          ~startswith(dirname(p), Prefix) => pdf[p] = [kind |-> "ok", pages |-> 1]
    /\ filelist \in (IF mode = "convert" THEN FileLists ELSE {<<>>})
    /\ \E k \in 0..MaxList : fs = PreExisting(parent, k)
    /\ now = 0
    /\ pc = "start"
    /\ exit_status = -1
    /\ free = -1
    /\ log_filename = NoLogFile
    /\ pdf_files = <<>>
    /\ filenames = <<>>
    /\ reported = -1
    /\ queue = <<>>
    /\ results = <<>>
    /\ next_result = 1
    /\ worker = [w \in Workers |-> Idle]
    /\ outcome = [p \in PdfPaths(parent) |-> "none"]
    /\ dispatched = [p \in PdfPaths(parent) |-> 0]
    /\ completed = [p \in PdfPaths(parent) |-> 0]
    /\ rasterized = [p \in PdfPaths(parent) |-> 0]
    /\ probed = [p \in PdfPaths(parent) |-> 0]
    /\ written = [p \in PdfPaths(parent) |-> <<>>]
    /\ logs = <<>>
    /\ run = 1
    /\ prev_outcome = [p \in PdfPaths(parent) |-> "none"]
    /\ web = WebOff

inputs == <<mode, parent, pdf, filelist>>

earlier == <<run, prev_outcome>>

coordinator == <<pc, exit_status, free, log_filename, pdf_files, filenames, reported>>

history == <<outcome, dispatched, completed, rasterized, probed, written>>

(* batch_check_pdfs up to the hand-over of the work items to the pool *)
BatchCheckStart ==
    /\ pc = "start" /\ mode = "check"
    /\ log_filename' = LogName(now)
    /\ \E listing \in Listings(parent) :
          pdf_files' = find_pdf_files(run_dirs(parent), listing)
    /\ reported' = Len(pdf_files')
    /\ queue' = pdf_files'
    /\ pc' = "pool"
    /\ UNCHANGED <<inputs, earlier, web, fs, now, exit_status, free, filenames, results, next_result,
                   worker, history, logs>>

(* batch_convert up to the hand-over of the work items to the pool *)
BatchConvertStart ==
    /\ pc = "start" /\ mode = "convert"
    /\ \E f \in FreeChoices :
          /\ free' = f
          /\ IF ~check_disk_space(f, MinFreeGB)
             THEN /\ pc' = "exited"
                  /\ exit_status' = 1
                  /\ UNCHANGED <<pdf_files, filenames, reported, queue>>
             ELSE /\ \E listing \in Listings(parent) :
                        pdf_files' = find_pdf_files(run_dirs(parent), listing)
                  /\ filenames' = read_filenames(filelist)
                  /\ reported' = Len(pdf_files')
                  /\ queue' = pdf_files'
                  /\ pc' = "pool"
                  /\ UNCHANGED exit_status
    /\ UNCHANGED <<inputs, earlier, web, fs, now, log_filename, results, next_result, worker,
                   history, logs>>

(* a worker process of the pool takes the next work item *)
TakeTask(w) ==
    /\ pc = "pool" /\ worker[w].pc = "idle" /\ queue # <<>>
    /\ queue' = Tail(queue)
    /\ dispatched' = [dispatched EXCEPT ![Head(queue)] = @ + 1]
    /\ worker' = [worker EXCEPT ![w] = [Idle EXCEPT
                     !.pc = IF mode = "check" THEN "probe" ELSE "exists",
                     !.doc = Head(queue)]]
    /\ UNCHANGED <<inputs, earlier, web, fs, now, coordinator, results, next_result, outcome,
                   completed, rasterized, probed, written, logs>>

(* check_pdf in a worker; the result goes back in completion order *)
CheckPdf(w) ==
    /\ worker[w].pc = "probe"
    /\ LET doc == worker[w].doc
       IN  /\ probed' = [probed EXCEPT ![doc] = @ + 1]
           /\ results' = Append(results, check_pdf(doc, pdf[doc]))
           /\ completed' = [completed EXCEPT ![doc] = @ + 1]
    /\ worker' = [worker EXCEPT ![w] = Idle]
    /\ UNCHANGED <<inputs, earlier, web, fs, now, coordinator, queue, next_result, outcome,
                   dispatched, rasterized, written, logs>>

(* all results are in: the log file is opened for writing *)
OpenLog ==
    /\ pc = "pool" /\ mode = "check" /\ Len(results) = Len(pdf_files)
    /\ logs' = open_w(logs, log_filename)
    /\ pc' = "logging"
    /\ UNCHANGED <<inputs, earlier, web, fs, now, exit_status, free, log_filename, pdf_files,
                   filenames, reported, queue, results, next_result, worker, history>>

(* one turn of the loop over the results *)
WriteLog ==
    /\ pc = "logging" /\ next_result <= Len(results)
    /\ logs' = IF results[next_result] # NoError
               THEN log_error(logs, results[next_result], log_filename, now, MainProcess)
               ELSE logs
    /\ next_result' = next_result + 1
    /\ UNCHANGED <<inputs, earlier, web, fs, now, coordinator, queue, results, worker, history>>

CheckComplete ==
    /\ pc = "logging" /\ next_result > Len(results)
    /\ pc' = "done"
    /\ exit_status' = 0
    /\ UNCHANGED <<inputs, earlier, web, fs, now, free, log_filename, pdf_files, filenames, reported,
                   queue, results, next_result, worker, history, logs>>

(* convert_pdf: the check of the outputs that exist *)
ConvertExists(w) ==
    /\ worker[w].pc = "exists"
    /\ LET doc == worker[w].doc
       IN  IF all_pngs_exist(fs, dirname(doc), filenames)
           THEN /\ outcome' = [outcome EXCEPT ![doc] = "Skipped"]
                /\ completed' = [completed EXCEPT ![doc] = @ + 1]
                /\ worker' = [worker EXCEPT ![w] = Idle]
           ELSE /\ worker' = [worker EXCEPT ![w].pc = "parse"]
                /\ UNCHANGED <<outcome, completed>>
    /\ UNCHANGED <<inputs, earlier, web, fs, now, coordinator, queue, results, next_result,
                   dispatched, rasterized, probed, written, logs>>

(* convert_pdf: convert_from_path, and the except clauses it may end in *)
ConvertParse(w) ==
    /\ worker[w].pc = "parse"
    /\ LET doc == worker[w].doc
       IN  /\ rasterized' = [rasterized EXCEPT ![doc] = @ + 1]
           /\ worker' = [worker EXCEPT ![w] =
                 IF pdf[doc].kind = "ok"
                 THEN [@ EXCEPT !.pc = "save", !.images = pdf[doc].pages, !.i = 0]
                 ELSE [@ EXCEPT !.pc = "log", !.err = check_pdf(doc, pdf[doc])]]
    /\ UNCHANGED <<inputs, earlier, web, fs, now, coordinator, queue, results, next_result, outcome,
                   dispatched, completed, probed, written, logs>>

(* convert_pdf: one page is saved; after the last one the worker returns *)
ConvertSave(w) ==
    /\ worker[w].pc = "save"
    /\ LET doc  == worker[w].doc
           i    == worker[w].i
           path == join(dirname(doc), output_filename(filenames, i))
           last == i + 1 = worker[w].images
       IN  /\ fs' = fs \cup {path}
           /\ written' = [written EXCEPT ![doc] = Append(@, path)]
           /\ worker' = [worker EXCEPT ![w] = IF last THEN Idle ELSE [@ EXCEPT !.i = i + 1]]
           /\ outcome' = IF last THEN [outcome EXCEPT ![doc] = "Success"] ELSE outcome
           /\ completed' = IF last THEN [completed EXCEPT ![doc] = @ + 1] ELSE completed
    /\ UNCHANGED <<inputs, earlier, web, now, coordinator, queue, results, next_result, dispatched,
                   rasterized, probed, logs>>

(* convert_pdf: image.save raises, the except clause takes over *)
ConvertSaveFails(w) ==
    /\ worker[w].pc = "save"
    /\ worker' = [worker EXCEPT ![w] = [@ EXCEPT !.pc = "log",
                     !.err = [kind |-> "unexpected", path |-> worker[w].doc]]]
    /\ UNCHANGED <<inputs, earlier, web, fs, now, coordinator, queue, results, next_result, history, logs>>

(* convert_pdf: log_error in the except clause, in the worker process *)
ConvertLogError(w) ==
    /\ worker[w].pc = "log"
    /\ logs' = log_error(logs, worker[w].err, NoLogFile, now, w)
    /\ outcome' = [outcome EXCEPT ![worker[w].doc] = "Failure"]
    /\ completed' = [completed EXCEPT ![worker[w].doc] = @ + 1]
    /\ worker' = [worker EXCEPT ![w] = Idle]
    /\ UNCHANGED <<inputs, earlier, web, fs, now, coordinator, queue, results, next_result, dispatched,
                   rasterized, probed, written>>

(* convert_pdf: log_error cannot open or write its file and raises; no handler *)
(* is left, the exception leaves convert_pdf                                   *)
ConvertLogErrorFails(w) ==
    /\ worker[w].pc = "log"
    /\ outcome' = [outcome EXCEPT ![worker[w].doc] = "Raised"]
    /\ completed' = [completed EXCEPT ![worker[w].doc] = @ + 1]
    /\ worker' = [worker EXCEPT ![w] = Idle]
    /\ UNCHANGED <<inputs, earlier, web, fs, now, coordinator, queue, results, next_result, dispatched,
                   rasterized, probed, written, logs>>

(* pool.map returns, or raises again what a work item raised *)
ConvertComplete ==
    /\ pc = "pool" /\ mode = "convert" /\ queue = <<>>
    /\ \A w \in Workers : worker[w].pc = "idle"
    /\ IF \E d \in DOMAIN outcome : outcome[d] = "Raised"
       THEN pc' = "crashed" /\ exit_status' = 1
       ELSE pc' = "done" /\ exit_status' = 0
    /\ UNCHANGED <<inputs, earlier, web, fs, now, free, log_filename, pdf_files, filenames, reported,
                   queue, results, next_result, worker, history, logs>>

(* a second passes *)
Tick ==
    /\ now < MaxClock
    /\ pc \in {"start", "pool", "logging"}
    /\ now' = now + 1
    /\ UNCHANGED <<inputs, earlier, web, fs, coordinator, queue, results, next_result, worker,
                   history, logs>>

Next ==
    \/ BatchCheckStart
    \/ BatchConvertStart
    \/ \E w \in Workers : TakeTask(w)
    \/ \E w \in Workers : CheckPdf(w)
    \/ OpenLog
    \/ WriteLog
    \/ CheckComplete
    \/ \E w \in Workers : ConvertExists(w)
    \/ \E w \in Workers : ConvertParse(w)
    \/ \E w \in Workers : ConvertSave(w)
    \/ \E w \in Workers : ConvertSaveFails(w)
    \/ \E w \in Workers : ConvertLogError(w)
    \/ \E w \in Workers : ConvertLogErrorFails(w)
    \/ ConvertComplete
    \/ Tick

Spec == Init /\ [][Next]_vars

(* the script is started again in convert mode on the same tree, with the  *)
(* same filename list, after a run that reached its summary: a new process, *)
(* the files on disk are what the run before left                           *)
Reinvoke ==
    /\ pc = "done" /\ mode = "convert" /\ run = 1
    /\ run' = 2
    /\ prev_outcome' = outcome
    /\ pc' = "start"
    /\ exit_status' = -1
    /\ free' = -1
    /\ log_filename' = NoLogFile
    /\ pdf_files' = <<>>
    /\ filenames' = <<>>
    /\ reported' = -1
    /\ queue' = <<>>
    /\ results' = <<>>
    /\ next_result' = 1
    /\ worker' = [w \in Workers |-> Idle]
    /\ outcome' = [p \in DOMAIN outcome |-> "none"]
    /\ dispatched' = [p \in DOMAIN outcome |-> 0]
    /\ completed' = [p \in DOMAIN outcome |-> 0]
    /\ rasterized' = [p \in DOMAIN outcome |-> 0]
    /\ probed' = [p \in DOMAIN outcome |-> 0]
    /\ written' = [p \in DOMAIN outcome |-> <<>>]
    /\ UNCHANGED <<inputs, fs, now, logs, web>>

NextRerun ==
    \/ Next
    \/ Reinvoke

SpecRerun == Init /\ [][NextRerun]_vars

-----------------------------------------------------------------------------
(* logbook/webscraper.py: a script run from top to bottom.  web.bound holds *)
(* the names page and max_pages once they are assigned; the answers of the  *)
(* server and of the user are drawn where the script reads them.            *)

MaxEntries == 2

MaxServerPages == 2

max_pages == 100

batch == <<mode, parent, pdf, filelist, fs, now, pc, exit_status, free,
           log_filename, pdf_files, filenames, reported, queue, results,
           next_result, worker, outcome, dispatched, completed, rasterized,
           probed, written, logs, run, prev_outcome>>

NoRequests == [login |-> 0, search |-> 0, paged |-> 0, entry |-> 0, file |-> 0]

WebStart(debug, no_download, filter, settings, dates_ok) ==
    [pc |-> "load_settings", status |-> -1, debug |-> debug,
     no_download |-> no_download, filter |-> filter, settings |-> settings,
     dates_ok |-> dates_ok, bound |-> {}, page |-> 0, requests |-> NoRequests,
     saved |-> 0, results_file |-> FALSE]

(* exit(code) and exit(): SystemExit ends the script *)
WebExit(code) == [web EXCEPT !.pc = "exited", !.status = code]

InitWeb ==
    /\ mode = "none" /\ parent = {} /\ pdf = <<>> /\ filelist = <<>> /\ fs = {}
    /\ now = 0 /\ pc = "off" /\ exit_status = -1 /\ free = -1
    /\ log_filename = NoLogFile /\ pdf_files = <<>> /\ filenames = <<>>
    /\ reported = -1 /\ queue = <<>> /\ results = <<>> /\ next_result = 1
    /\ worker = [w \in Workers |-> Idle]
    /\ outcome = <<>> /\ dispatched = <<>> /\ completed = <<>> /\ rasterized = <<>>
    /\ probed = <<>> /\ written = <<>> /\ logs = <<>>
    /\ run = 1 /\ prev_outcome = <<>>
    /\ \E debug, no_download, filter, dates_ok \in BOOLEAN :
          \E settings \in {"ok", "missing", "badjson"} :
              web = WebStart(debug, no_download, filter, settings, dates_ok)

(* load_settings: a missing file gives {}, a malformed one ends the script *)
LoadSettings ==
    /\ web.pc = "load_settings"
    /\ web' = IF web.settings = "badjson" THEN WebExit(1)
              ELSE [web EXCEPT !.pc = "parse_args"]
    /\ UNCHANGED batch

(* parse_args; --debug forces no_download *)
ParseArgs ==
    /\ web.pc = "parse_args"
    /\ web' = [web EXCEPT !.pc = "dates",
                          !.no_download = IF web.debug THEN TRUE ELSE @]
    /\ UNCHANGED batch

ValidateDates ==
    /\ web.pc = "dates"
    /\ web' = IF web.dates_ok THEN [web EXCEPT !.pc = "login"] ELSE WebExit(1)
    /\ UNCHANGED batch

(* steps 1 to 4: login page, login request, check of the answer *)
Login ==
    /\ web.pc = "login"
    /\ \E ok \in BOOLEAN :
          web' = IF ok THEN [web EXCEPT !.pc = "search_page", !.requests.login = @ + 1]
                 ELSE [WebExit(0) EXCEPT !.requests.login = @ + 1]
    /\ UNCHANGED batch

(* step 5: the search form and its tokens *)
FetchSearchPage ==
    /\ web.pc = "search_page"
    /\ \E tokens \in BOOLEAN :
          web' = IF web.debug /\ ~tokens THEN WebExit(0)
                 ELSE [web EXCEPT !.pc = "search"]
    /\ UNCHANGED batch

(* steps 6 to 8, up to the preview: n entries found, kept of them pass the filter *)
Search ==
    /\ web.pc = "search"
    /\ \E ok \in BOOLEAN, n \in 0..MaxEntries :
          \E kept \in 0..n :
              web' = [(IF ~ok THEN [web EXCEPT !.pc = "download_stage"]
                       ELSE IF n = 0 THEN WebExit(0)
                       ELSE IF web.filter /\ kept = 0 THEN WebExit(0)
                       ELSE [web EXCEPT !.pc = "confirm"])
                      EXCEPT !.requests.search = @ + 1]
    /\ UNCHANGED batch

(* the question to the user, then logbook_results.txt *)
Confirm ==
    /\ web.pc = "confirm"
    /\ \E proceed \in BOOLEAN :
          web' = IF proceed THEN [web EXCEPT !.pc = "download_stage", !.results_file = TRUE]
                 ELSE WebExit(0)
    /\ UNCHANGED batch

(* step 9: page and max_pages are assigned in the else branch only *)
DownloadStage ==
    /\ web.pc = "download_stage"
    /\ web' = IF web.no_download THEN [web EXCEPT !.pc = "loop"]
              ELSE [web EXCEPT !.pc = "loop", !.page = 0,
                               !.bound = @ \cup {"page", "max_pages"}]
    /\ UNCHANGED batch

(* while page < max_pages: at the top level of the script, after the if/else; *)
(* a name that was never assigned raises NameError                            *)
LoopTest ==
    /\ web.pc = "loop"
    /\ web' = IF ~({"page", "max_pages"} \subseteq web.bound)
              THEN [web EXCEPT !.pc = "NameError", !.status = 1]
              ELSE IF web.page < max_pages THEN [web EXCEPT !.pc = "fetch_page"]
              ELSE [web EXCEPT !.pc = "end"]
    /\ UNCHANGED batch

(* the body of the loop: one paginated search request, then of its m entries *)
(* j have a run number (entry page fetched), k of them link a file           *)
(* (requested), sv of these are saved                                        *)
FetchPage ==
    /\ web.pc = "fetch_page"
    /\ \E ok \in BOOLEAN, m \in 0..(IF web.page < MaxServerPages THEN MaxEntries ELSE 0) :
          \E j \in 0..m :
              \E k \in 0..j :
                  \E sv \in 0..k :
                      web' = IF ~ok \/ m = 0
                             THEN [web EXCEPT !.pc = "end", !.requests.paged = @ + 1]
                             ELSE [web EXCEPT !.pc = "loop", !.page = @ + 1,
                                              !.requests.paged = @ + 1,
                                              !.requests.entry = @ + j,
                                              !.requests.file = @ + k,
                                              !.saved = @ + sv]
    /\ UNCHANGED batch

(* the end of the script, with the debug log lines *)
EndOfScript ==
    /\ web.pc = "end"
    /\ web' = [web EXCEPT !.pc = "finished", !.status = 0]
    /\ UNCHANGED batch

NextWeb ==
    \/ LoadSettings
    \/ ParseArgs
    \/ ValidateDates
    \/ Login
    \/ FetchSearchPage
    \/ Search
    \/ Confirm
    \/ DownloadStage
    \/ LoopTest
    \/ FetchPage
    \/ EndOfScript

SpecWeb == InitWeb /\ [][NextWeb]_vars

-----------------------------------------------------------------------------
(* Properties *)

Docs == DOMAIN pdf

Discovered ==
    {d \in Docs : \E e \in parent : /\ e.isdir
                                    /\ e.name = dirname(d)
                                    /\ Head(e.name) = Prefix
                                    /\ d[2] \in e.files
                                    /\ d[2][Len(d[2])] = PdfSuffix}

Bad(d) == pdf[d].kind # "ok"

LogRecords(d) ==
    Cardinality({x \in UNION {{<<n, i>> : i \in DOMAIN logs[n]} : n \in DOMAIN logs} :
                    logs[x[1]][x[2]].msg.path = d})

ExpectedOutput(d, i) ==
    join(dirname(d), IF i <= Len(filenames) THEN filenames[i] ELSE DefaultName(i))

(* C1: when convert_pdf makes its check in a state where every filename of  *)
(* the list exists in the document's directory (vacuously so for the empty  *)
(* list), it writes no file, rasterizes nothing and reports Skipped; a      *)
(* skipped document has written nothing and was never rasterized.           *)
C1_SkipWritesNothing ==
    /\ [](\A d \in Docs : outcome[d] = "Skipped" => rasterized[d] = 0 /\ written[d] = <<>>)
    /\ [][\A w \in Workers :
            (/\ worker[w].pc = "exists"
             /\ worker'[w] # worker[w]
             /\ \A n \in Range(filenames) : join(dirname(worker[w].doc), n) \in fs)
            => (/\ fs' = fs
                /\ written' = written
                /\ rasterized' = rasterized
                /\ logs' = logs
                /\ outcome'[worker[w].doc] = "Skipped"
                /\ worker'[w].pc = "idle")]_vars

C1_Witness ==
    \E d \in Docs : outcome[d] = "Skipped" /\ Len(filenames) = 2 /\ Bad(d)

(* C2: in convert mode, free space below 10 GB ends the run with exit       *)
(* status 1 before any dispatch: nothing is queued, no document is taken by *)
(* a worker or rasterized, no image is written.                             *)
C2_LowDiskAborts ==
    (mode = "convert" /\ free # -1 /\ free < MinFreeGB * GiB)
    => (/\ pc = "exited"
        /\ exit_status = 1
        /\ queue = <<>>
        /\ \A d \in Docs : dispatched[d] = 0 /\ rasterized[d] = 0 /\ written[d] = <<>>)

C2_Witness ==
    pc = "exited" /\ free = MinFreeGB * GiB - 1 /\ Cardinality(Discovered) = 2

(* C3: in the check pipeline a document that cannot be read gets exactly    *)
(* one error-log record naming its path, a readable one gets none, and      *)
(* every document of the batch is probed, whatever the completion order.    *)
C3_OneRecordPerBadDocument ==
    mode = "check" =>
        /\ \A d \in Docs : LogRecords(d) <= (IF Bad(d) THEN 1 ELSE 0)
        /\ pc \in {"logging", "done"} => \A d \in Range(pdf_files) : probed[d] = 1
        /\ pc = "done" =>
              \A d \in Range(pdf_files) : LogRecords(d) = (IF Bad(d) THEN 1 ELSE 0)

C3_Witness ==
    /\ mode = "check" /\ pc = "done" /\ Len(pdf_files) = 2
    /\ ~Bad(pdf_files[1]) /\ pdf[pdf_files[2]].kind = "unreadable"
    /\ results[1] # NoError

(* C4: page i of a rasterized document goes to the i-th name of the list    *)
(* when i <= L and to default_page_<i>.png when i > L, in the document's    *)
(* directory, the pages in page order; a successful document has written    *)
(* all its N pages.                                                         *)
C4_PageNames ==
    \A d \in Docs :
        /\ Len(written[d]) <= pdf[d].pages
        /\ \A i \in 1..Len(written[d]) : written[d][i] = ExpectedOutput(d, i)
        /\ outcome[d] = "Success" => Len(written[d]) = pdf[d].pages

C4_Witness ==
    \E d \in Docs :
        /\ outcome[d] = "Success" /\ pdf[d].pages = 3
        /\ written[d] = <<join(dirname(d), "p1.png"), join(dirname(d), "p2.png"),
                          join(dirname(d), "default_page_3.png")>>

(* C5: no failure inside convert_pdf leaves the worker: no work item ends   *)
(* by raising, and a convert run that got past the disk check reaches its   *)
(* completion summary.                                                      *)
C5_FailureNeverRaised ==
    /\ \A d \in Docs : outcome[d] # "Raised"
    /\ pc # "crashed"

(* C6: every record of every error log was written by the coordinating      *)
(* process, never by a worker process.                                      *)
C6_CoordinatorWritesLog ==
    \A n \in DOMAIN logs : \A i \in DOMAIN logs[n] : logs[n][i].by = MainProcess

(* C7: the files written by two distinct work items are disjoint.           *)
C7_DisjointWrites ==
    \A d1, d2 \in Docs : d1 # d2 => Range(written[d1]) \cap Range(written[d2]) = {}

(* C8: all error messages of one invocation go to one single error-log     *)
(* file, created once: an invocation never has several error-log files.    *)
C8_OneLogFile == Cardinality(DOMAIN logs) <= 1

(* C9: exactly the *.pdf files directly inside the subdirectories whose     *)
(* name starts with the prefix are dispatched; each is taken by a worker    *)
(* once and processed at most once, and when the pool is through each has   *)
(* been dispatched exactly once.                                            *)
C9_DispatchedOnce ==
    /\ \A d \in Docs :
          /\ dispatched[d] <= 1
          /\ completed[d] <= dispatched[d]
          /\ probed[d] + rasterized[d] <= dispatched[d]
          /\ d \notin Discovered => dispatched[d] = 0
    /\ pc \in {"pool", "logging", "done", "crashed"} =>
          /\ Range(pdf_files) = Discovered
          /\ Len(pdf_files) = Cardinality(Discovered)
    /\ pc \in {"logging", "done", "crashed"} =>
          \A d \in Discovered : dispatched[d] = 1 /\ completed[d] = 1

C9_Witness ==
    /\ pc = "done" /\ Cardinality(Discovered) = 2 /\ Docs # Discovered
    /\ \A d \in Discovered : dispatched[d] = 1

NoMatchingSubdir == ~ \E e \in parent : e.isdir /\ Head(e.name) = Prefix

(* C10: check-only mode with no matching subdirectory: nothing is           *)
(* dispatched, the run never fails and can always go on until it is done,   *)
(* the summary says 0 PDFs, and at the end the log file of the invocation   *)
(* exists and is empty.                                                     *)
C10_EmptyCheckRun ==
    (mode = "check" /\ NoMatchingSubdir) =>
        /\ pc \notin {"crashed", "exited"}
        /\ \A d \in Docs : dispatched[d] = 0 /\ probed[d] = 0
        /\ pc # "start" => reported = 0
        /\ pc # "done" => ENABLED (BatchCheckStart \/ OpenLog \/ WriteLog \/ CheckComplete)
        /\ pc = "done" =>
              /\ exit_status = 0
              /\ DOMAIN logs = {log_filename}
              /\ logs[log_filename] = <<>>

C10_Witness ==
    /\ mode = "check" /\ NoMatchingSubdir /\ pc = "done"
    /\ \E e \in parent : ~e.isdir /\ Head(e.name) = Prefix
    /\ DOMAIN logs = {log_filename}

(* C11: a document rasterized without failure in one convert invocation is  *)
(* reported Skipped by the next one (same filename list, nothing else       *)
(* changed on disk), which neither rasterizes it nor writes a file for it,  *)
(* whatever its page count and the length of the list.                      *)
C11_RerunSkips ==
    \A d \in Docs :
        (run = 2 /\ prev_outcome[d] = "Success")
        => (/\ outcome[d] \in {"none", "Skipped"}
            /\ rasterized[d] = 0
            /\ written[d] = <<>>)

(* C12: with --no-download or --debug the download stage is skipped: no     *)
(* paginated search request and no file download is issued, and the script  *)
(* runs to its end normally, it does not end by an exception.               *)
C12_NoDownloadSkipsStage ==
    (web.pc # "off" /\ (web.no_download \/ web.debug))
    => (/\ web.requests.paged = 0
        /\ web.requests.file = 0
        /\ web.saved = 0
        /\ web.pc # "NameError")

=============================================================================
